---- MODULE Spec2Model ----
(***************************************************************************)
(* ClipManager, resources/py/record_clip.py.                               *)
(*                                                                         *)
(*   4  def record_clip():                                                 *)
(*   5      now = datetime.now().strftime("%Y-%m-%d_%H-%M-%S")             *)
(*   6      os.system(f"ffmpeg -i rtsp://<camera_ip>:554/h264Preview_01_   *)
(*                      main -t 30 -vcodec copy /var/www/html/clips/       *)
(*                      {now}.mp4")                                        *)
(*   8  record_clip()                                                      *)
(*                                                                         *)
(* The script is one invocation of record_clip.  The model runs NumProcs   *)
(* independent runs of the script (nothing in the code prevents several    *)
(* from running at once) against one wall clock and one file system.       *)
(*                                                                         *)
(* Text is a string, read character by character with SubSeq, so that      *)
(* formatting and the shell's reading of the command line are computed.    *)
(* os.system hands the command line to "sh -c"; the shell's word splitting *)
(* and its redirection operators < and > are therefore part of what line 6 *)
(* does, and are modelled (Tokens, Parse, Shell* actions).                 *)
(***************************************************************************)
EXTENDS Integers, Sequences, FiniteSets, TLC

\* Number of runs of the script that may overlap.
NumProcs == 2

Procs == 1..NumProcs

VARIABLES
    clock,        \* the wall clock: the datetime that datetime.now() returns now
    files,        \* the paths of the files created so far
    pc,           \* pc[p]: "call", "now", "system", "wait", "done"
    readings,     \* readings[p]: the datetimes p got from datetime.now(), in order
    now,          \* now[p]: the local variable now of record_clip, a text
    systemCalls,  \* systemCalls[p]: the command lines p gave to os.system, in order
    child,        \* child[p]: "none", "started", "sh", "exec", "tool", "exited",
                  \*   "nofork"
    shell,        \* shell[p]: the command as p's shell has read it (Parse)
    execs,        \* execs[p]: the shell's attempts to execute the command, in
                  \*   order: the argument list, and whether the command was found
    status,       \* status[p]: exit code of p's subprocess; -1 while there is none
    wrote,        \* wrote[p]: the paths created by p's subprocesses
    result,       \* result[p]: what record_clip returned: "pending", then "None"
    exit          \* exit[p]: exit status of the script; -1 while it runs

vars == << clock, files, pc, readings, now, systemCalls, child, shell, execs,
           status, wrote, result, exit >>

----------------------------------------------------------------------------
(* Text helpers *)

\* The i-th character of the text s.
Char(s, i) == SubSeq(s, i, i)

Digits == "0123456789"

\* The decimal digit of d, 0 <= d <= 9.
Digit(d) == Char(Digits, d + 1)

\* n as exactly w decimal digits, zero-padded on the left (C's %0wd, n >= 0).
RECURSIVE ZeroPad(_, _)
ZeroPad(n, w) ==
    IF w = 0 THEN ""
    ELSE ZeroPad(n \div 10, w - 1) \o Digit(n % 10)

\* n in decimal without padding (n >= 0).
RECURSIVE Unpadded(_)
Unpadded(n) ==
    IF n < 10 THEN Digit(n)
    ELSE Unpadded(n \div 10) \o Digit(n % 10)

\* Variant of Strftime: the format "%Y-%-m-%-d_%-H-%-M-%-S", which does not pad.
StrftimeUnpadded(r) ==
    Unpadded(r.year) \o "-" \o Unpadded(r.month) \o "-" \o
    Unpadded(r.day) \o "_" \o Unpadded(r.hour) \o "-" \o
    Unpadded(r.minute) \o "-" \o Unpadded(r.second)

\* Variant of Strftime: the format "%Y-%m-%d_%H-%M-00", which drops the second.
StrftimeToMinute(r) ==
    ZeroPad(r.year, 4) \o "-" \o ZeroPad(r.month, 2) \o "-" \o
    ZeroPad(r.day, 2) \o "_" \o ZeroPad(r.hour, 2) \o "-" \o
    ZeroPad(r.minute, 2) \o "-" \o "00"

\* datetime.strftime("%Y-%m-%d_%H-%M-%S"): the microsecond is not formatted.
\* (%Y is the year in full; datetime.now() returns years of four digits.)
Strftime(r) ==
    ZeroPad(r.year, 4) \o "-" \o ZeroPad(r.month, 2) \o "-" \o
    ZeroPad(r.day, 2) \o "_" \o ZeroPad(r.hour, 2) \o "-" \o
    ZeroPad(r.minute, 2) \o "-" \o ZeroPad(r.second, 2)

\* The literal part of the f-string of line 6, up to {now}.
CommandHead ==
    "ffmpeg -i rtsp://<camera_ip>:554/h264Preview_01_main -t 30 -vcodec copy /var/www/html/clips/"

\* The literal part of the f-string of line 6 after {now}.
CommandTail == ".mp4"

\* Variant of Command: the clip is taken from the tool's standard output,
\* "... -vcodec copy >/var/www/html/clips/{now}.mp4".
CommandToStdout(n) ==
    SubSeq(CommandHead, 1, 72) \o ">" \o
    SubSeq(CommandHead, 73, Len(CommandHead)) \o n \o CommandTail

\* The f-string of line 6.
Command(n) == CommandHead \o n \o CommandTail

----------------------------------------------------------------------------
(* sh -c: how the shell reads a command line made of plain words, blanks    *)
(* and the operators < and > (no quoting occurs in the command of line 6).  *)

IsBlank(c) == c = " "

IsOpChar(c) == c \in { "<", ">" }

IsSeparator(c) == IsBlank(c) \/ IsOpChar(c)

\* The position where the word that starts at i ends: it runs up to the next
\* blank, operator or the end of s.
WordEnd(s, i) ==
    CHOOSE j \in i..Len(s) :
        /\ j = Len(s) \/ IsSeparator(Char(s, j + 1))
        /\ \A k \in i..j : ~IsSeparator(Char(s, k))

\* The tokens of s from position i on, left to right: words, and the
\* operators < and >.
RECURSIVE TokensFrom(_, _)
TokensFrom(s, i) ==
    IF i > Len(s) THEN << >>
    ELSE IF IsBlank(Char(s, i)) THEN TokensFrom(s, i + 1)
    ELSE IF IsOpChar(Char(s, i)) THEN << Char(s, i) >> \o TokensFrom(s, i + 1)
    ELSE LET j == WordEnd(s, i)
         IN  << SubSeq(s, i, j) >> \o TokensFrom(s, j + 1)

Tokens(s) == TokensFrom(s, 1)

IsOp(t) == t \in { "<", ">" }

\* A simple command: the words that are arguments, and the redirections
\* (operator, target word) in the order they are written.
RECURSIVE ParseFrom(_, _, _)
ParseFrom(ts, i, acc) ==
    IF i > Len(ts) THEN acc
    ELSE IF IsOp(ts[i]) /\ i < Len(ts)
         THEN ParseFrom(ts, i + 2,
                [acc EXCEPT !.redirs = Append(@, [op |-> ts[i], target |-> ts[i + 1]])])
    ELSE ParseFrom(ts, i + 1, [acc EXCEPT !.words = Append(@, ts[i])])

Parse(s) == ParseFrom(Tokens(s), 1, [words |-> << >>, redirs |-> << >>])

\* The files the shell has created once the first k redirections are done.
Created(redirs, k) ==
    { redirs[j].target : j \in { j \in 1..k : redirs[j].op = ">" } }

Last(seq) == seq[Len(seq)]

----------------------------------------------------------------------------
(* The environment: wall clock, shell errors, tool exit codes *)

Reading(y, mo, d, h, mi, s, us) ==
    [year |-> y, month |-> mo, day |-> d, hour |-> h, minute |-> mi,
     second |-> s, microsecond |-> us]

Fields(r) == << r.year, r.month, r.day, r.hour, r.minute, r.second, r.microsecond >>

\* a is an earlier datetime than b.
Before(a, b) ==
    \E i \in 1..7 :
        /\ Fields(a)[i] < Fields(b)[i]
        /\ \A j \in 1..(i - 1) : Fields(a)[j] = Fields(b)[j]

\* The values the wall clock takes: an instant, and one 31 seconds later
\* (longer than a capture of 30 seconds).
ClockReadings ==
    { Reading(2024, 2, 9, 3, 4, 5, 1),
      Reading(2024, 2, 9, 3, 4, 36, 250000) }

\* The values datetime.now() returns in the runs that check the formatting:
\* every field with a value that needs padding and one that does not.
FmtReadings ==
    { Reading(y, mo, d, h, mi, s, us) :
        y \in { 1970, 2024 }, mo \in { 2, 11 }, d \in { 9, 28 }, h \in { 0, 23 },
        mi \in { 7, 59 }, s \in { 0, 58 }, us \in { 1, 999999 } }

\* The runs of the script whose formatting is checked pairwise.
FmtProcs == { p \in Procs : p <= 2 }

\* Exit code of a shell whose redirection fails (bash: 1, dash: 2).
ShellErrors == { 1, 2 }

\* Exit code of a shell that does not find the command.
NotFound == 127

\* The exit status the shell takes from the capture tool: the tool's own exit
\* code (0 is success; any other, 127 included, a failure), or 128 + n when
\* the tool is killed by signal n (137 for SIGKILL).
ToolExitCodes == 0..255

\* The tool exit statuses followed where several invocations run together:
\* success, two failures, and killed by SIGKILL.
SampleExitCodes == { 0, 1, 3, 137 }

----------------------------------------------------------------------------
(* The program *)

\* What a shell that has read nothing holds.
NoCommand == [words |-> << >>, redirs |-> << >>]

Init ==
    /\ clock \in ClockReadings
    /\ files = { }
    /\ pc = [p \in Procs |-> "call"]
    /\ readings = [p \in Procs |-> << >>]
    /\ now = [p \in Procs |-> ""]
    /\ systemCalls = [p \in Procs |-> << >>]
    /\ child = [p \in Procs |-> "none"]
    /\ shell = [p \in Procs |-> NoCommand]
    /\ execs = [p \in Procs |-> << >>]
    /\ status = [p \in Procs |-> -1]
    /\ wrote = [p \in Procs |-> { }]
    /\ result = [p \in Procs |-> "pending"]
    /\ exit = [p \in Procs |-> -1]

\* Time passes: the wall clock reaches a later reading (the runs in which the
\* clock is set back are not explored).
Tick ==
    /\ clock' \in { r \in ClockReadings : Before(clock, r) }
    /\ UNCHANGED << files, pc, readings, now, systemCalls, child, shell, execs,
                    status, wrote, result, exit >>

\* Line 8: the script calls record_clip.
Call(p) ==
    /\ pc[p] = "call"
    /\ pc' = [pc EXCEPT ![p] = "now"]
    /\ UNCHANGED << clock, files, readings, now, systemCalls, child, shell,
                    execs, status, wrote, result, exit >>

\* Line 5 when datetime.now() returns r.
ReadClockAt(p, r) ==
    /\ pc[p] = "now"
    /\ readings' = [readings EXCEPT ![p] = Append(@, r)]
    /\ now' = [now EXCEPT ![p] = Strftime(r)]
    /\ pc' = [pc EXCEPT ![p] = "system"]
    /\ UNCHANGED << files, systemCalls, child, shell, execs, status, wrote,
                    result, exit >>

\* Line 5: now = datetime.now().strftime(...).
ReadClock(p) ==
    /\ ReadClockAt(p, clock)
    /\ UNCHANGED clock

\* Variant of SystemLaunch: the shell is not started while another invocation
\* is capturing with the same command line.
SystemLaunchLocked(p) ==
    /\ pc[p] = "system"
    /\ \A q \in Procs \ { p } :
          ~(pc[q] = "wait" /\ systemCalls[q] = << Command(now[p]) >>)
    /\ systemCalls' = [systemCalls EXCEPT ![p] = Append(@, Command(now[p]))]
    /\ child' = [child EXCEPT ![p] = "started"]
    /\ pc' = [pc EXCEPT ![p] = "wait"]
    /\ UNCHANGED << clock, files, readings, now, shell, execs, status, wrote,
                    result, exit >>

\* Variant of SystemLaunch: the command line takes its timestamp from a second
\* datetime.now() rather than from the variable now.
SystemLaunchRereads(p) ==
    /\ pc[p] = "system"
    /\ systemCalls' = [systemCalls EXCEPT ![p] = Append(@, Command(Strftime(clock)))]
    /\ child' = [child EXCEPT ![p] = "started"]
    /\ pc' = [pc EXCEPT ![p] = "wait"]
    /\ UNCHANGED << clock, files, readings, now, shell, execs, status, wrote,
                    result, exit >>

\* Line 6: os.system is given the command line and starts "sh -c <command
\* line>".
SystemLaunch(p) ==
    /\ pc[p] = "system"
    /\ systemCalls' = [systemCalls EXCEPT ![p] = Append(@, Command(now[p]))]
    /\ child' = [child EXCEPT ![p] = "started"]
    /\ pc' = [pc EXCEPT ![p] = "wait"]
    /\ UNCHANGED << clock, files, readings, now, shell, execs, status, wrote,
                    result, exit >>

\* Line 6: os.system cannot create the shell process (system() returns -1).
SystemNoFork(p) ==
    /\ pc[p] = "system"
    /\ systemCalls' = [systemCalls EXCEPT ![p] = Append(@, Command(now[p]))]
    /\ child' = [child EXCEPT ![p] = "nofork"]
    /\ pc' = [pc EXCEPT ![p] = "wait"]
    /\ UNCHANGED << clock, files, readings, now, shell, execs, status, wrote,
                    result, exit >>

\* The shell reads its command line: words, and redirections.
ShellRead(p) ==
    /\ child[p] = "started"
    /\ shell' = [shell EXCEPT ![p] = Parse(Last(systemCalls[p]))]
    /\ child' = [child EXCEPT ![p] = "sh"]
    /\ UNCHANGED << clock, files, pc, readings, now, systemCalls, execs, status,
                    wrote, result, exit >>

\* The shell does the redirections of the command in order; the k-th one
\* fails (no such file to read, no such directory to create the file in), so
\* the command is not run.  The earlier ones have been done.
ShellRedirectFail(p) ==
    /\ child[p] = "sh"
    /\ \E k \in 1..Len(shell[p].redirs), code \in ShellErrors :
          /\ files' = files \cup Created(shell[p].redirs, k - 1)
          /\ wrote' = [wrote EXCEPT ![p] = @ \cup Created(shell[p].redirs, k - 1)]
          /\ status' = [status EXCEPT ![p] = code]
    /\ child' = [child EXCEPT ![p] = "exited"]
    /\ UNCHANGED << clock, pc, readings, now, systemCalls, shell, execs, result, exit >>

\* The shell does all the redirections of the command: every > target is
\* created.  It goes on to run the command.
ShellRedirectOk(p) ==
    /\ child[p] = "sh"
    /\ files' = files \cup Created(shell[p].redirs, Len(shell[p].redirs))
    /\ wrote' = [wrote EXCEPT
                   ![p] = @ \cup Created(shell[p].redirs, Len(shell[p].redirs))]
    /\ child' = [child EXCEPT ![p] = "exec"]
    /\ UNCHANGED << clock, pc, readings, now, systemCalls, shell, execs, status,
                    result, exit >>

\* The shell looks the command word up and does not find it: the tool is
\* unavailable.
ShellNotFound(p) ==
    /\ child[p] = "exec"
    /\ execs' = [execs EXCEPT ![p] = Append(@, [argv |-> shell[p].words, found |-> FALSE])]
    /\ status' = [status EXCEPT ![p] = NotFound]
    /\ child' = [child EXCEPT ![p] = "exited"]
    /\ UNCHANGED << clock, files, pc, readings, now, systemCalls, shell, wrote,
                    result, exit >>

\* The shell executes the command word with the argument words: the tool runs.
ShellExec(p) ==
    /\ child[p] = "exec"
    /\ execs' = [execs EXCEPT ![p] = Append(@, [argv |-> shell[p].words, found |-> TRUE])]
    /\ child' = [child EXCEPT ![p] = "tool"]
    /\ UNCHANGED << clock, files, pc, readings, now, systemCalls, shell, status,
                    wrote, result, exit >>

\* The tool creates (or writes more of) its output file, its last argument.
\* A tool that cannot (no such directory, no stream) or does not write takes
\* no such step: ToolExit is enabled without it.
ToolWrite(p) ==
    /\ child[p] = "tool"
    /\ files' = files \cup { Last(Last(execs[p]).argv) }
    /\ wrote' = [wrote EXCEPT ![p] = @ \cup { Last(Last(execs[p]).argv) }]
    /\ UNCHANGED << clock, pc, readings, now, systemCalls, child, shell, execs,
                    status, result, exit >>

\* The tool ends, with or without having written its output file, and the
\* shell ends with a status among codes.
ToolExitWith(p, codes) ==
    /\ child[p] = "tool"
    /\ \E code \in codes : status' = [status EXCEPT ![p] = code]
    /\ child' = [child EXCEPT ![p] = "exited"]
    /\ UNCHANGED << clock, files, pc, readings, now, systemCalls, shell, execs,
                    wrote, result, exit >>

\* The tool ends (exits, or is killed by a signal), with or without having
\* written its output file; the shell ends with the tool's status.
ToolExit(p) == ToolExitWith(p, ToolExitCodes)

\* Variant of Return: the subprocess is started and not waited for.
ReturnWithoutWaiting(p) ==
    /\ pc[p] = "wait"
    /\ pc' = [pc EXCEPT ![p] = "done"]
    /\ result' = [result EXCEPT ![p] = "None"]
    /\ exit' = [exit EXCEPT ![p] = 0]
    /\ UNCHANGED << clock, files, readings, now, systemCalls, child, shell,
                    execs, status, wrote >>

\* Line 6 ends: os.system returns once the shell has exited (or at once when
\* there is none) and its value is dropped; record_clip returns None (line 4
\* has no return statement) and the script ends normally (line 8 is its last).
Return(p) ==
    /\ pc[p] = "wait"
    /\ child[p] \in { "exited", "nofork" }
    /\ pc' = [pc EXCEPT ![p] = "done"]
    /\ result' = [result EXCEPT ![p] = "None"]
    /\ exit' = [exit EXCEPT ![p] = 0]
    /\ UNCHANGED << clock, files, readings, now, systemCalls, child, shell,
                    execs, status, wrote >>

\* A step of invocation p other than the end of its tool.
ProcStep(p) ==
    \/ Call(p)
    \/ ReadClock(p)
    \/ SystemLaunch(p)
    \/ SystemNoFork(p)
    \/ ShellRead(p)
    \/ ShellRedirectFail(p)
    \/ ShellRedirectOk(p)
    \/ ShellNotFound(p)
    \/ ShellExec(p)
    \/ ToolWrite(p)
    \/ Return(p)

\* Several invocations together; the tool's status is among SampleExitCodes.
Next ==
    \/ Tick
    \/ \E p \in Procs :
          \/ ProcStep(p)
          \/ ToolExitWith(p, SampleExitCodes)

Spec == Init /\ [][Next]_vars

\* os.system waits for the shell (waitpid), so once the shell has exited, or
\* could not be created, the return is not postponed for ever.
FairSpec == Spec /\ \A p \in Procs : WF_vars(Return(p))

\* One invocation alone, its tool ending with any status.
RunNext ==
    \/ Tick
    \/ ProcStep(1)
    \/ ToolExit(1)

SpecRun == Init /\ [][RunNext]_vars

\* Line 5, datetime.now() returning any of FmtReadings.
FmtReadClock(p) ==
    \E r \in FmtReadings :
        /\ ReadClockAt(p, r)
        /\ clock' = r

\* Lines 8, 5 and the start of line 6 only: from the clock to the command the
\* shell reads.
FmtNext ==
    \E p \in FmtProcs :
        \/ Call(p)
        \/ FmtReadClock(p)
        \/ SystemLaunch(p)
        \/ ShellRead(p)

SpecFmt == Init /\ [][FmtNext]_vars

----------------------------------------------------------------------------
(* Vocabulary of the properties *)

\* The fixed output directory of line 6.
OutputDir == "/var/www/html/clips/"

Mp4 == ".mp4"

IsDigit(c) == \E d \in 0..9 : Digit(d) = c

DigitValue(c) == CHOOSE d \in 0..9 : Digit(d) = c

\* The number written in decimal at positions i..j of t.
RECURSIVE NumberAt(_, _, _)
NumberAt(t, i, j) ==
    IF j < i THEN 0 ELSE 10 * NumberAt(t, i, j - 1) + DigitValue(Char(t, j))

\* p's shell has been started and has read p's command line.
Launched(p) == child[p] \in { "sh", "exec", "tool", "exited" }

\* The destination path of p's command: its last argument word.
Destination(p) == Last(shell[p].words)

\* The reading p took of the clock.
ReadingOf(p) == readings[p][1]

\* A datetime without its microsecond.
ToSecond(r) == << r.year, r.month, r.day, r.hour, r.minute, r.second >>

\* f names an entry of the output directory itself (not of a subdirectory).
IsOutputDirEntry(f) ==
    /\ Len(f) > Len(OutputDir)
    /\ SubSeq(f, 1, Len(OutputDir)) = OutputDir
    /\ \A k \in (Len(OutputDir) + 1)..Len(f) : Char(f, k) # "/"

\* The argument list a has the option word o followed by the value word v.
HasOption(a, o, v) == \E i \in 1..(Len(a) - 1) : a[i] = o /\ a[i + 1] = v

----------------------------------------------------------------------------
(* Properties *)

\* C1 (as claimed): record_clip's outcome is success exactly when the capture
\* process exited with code zero and failure when it exited non-zero; so a run
\* whose process exited zero and a run whose process exited non-zero never end
\* with the same outcome.
C1_OutcomeFollowsExitStatus ==
    \A p, q \in Procs :
        (pc[p] = "done" /\ pc[q] = "done" /\ status[p] = 0 /\ status[q] > 0)
            => result[p] # result[q]

\* C2 (as claimed): a finished invocation whose shell was started has launched
\* the capture tool exactly once, with the duration argument 30 and with the
\* destination path OutputDir + now + ".mp4" of this invocation's timestamp.
C2_ToolLaunchedExactlyOnce ==
    \A p \in Procs :
        (pc[p] = "done" /\ child[p] = "exited")
            => /\ Len(execs[p]) = 1
               /\ HasOption(execs[p][1].argv, "-t", "30")
               /\ Last(execs[p][1].argv) = OutputDir \o now[p] \o Mp4

\* C3 (as claimed): the script ends with exit status zero exactly when its
\* capture subprocess succeeded (exit code zero), and with a non-zero status
\* when the subprocess failed or could not be started.
C3_ExitStatusPropagated ==
    \A p \in Procs : pc[p] = "done" => (exit[p] = 0 <=> status[p] = 0)

\* C4: when the capture tool is unavailable (the shell does not find it), the
\* invocation creates no entry in the output directory, the destination path
\* included, at any time up to and after its return.
C4_NoOutputWhenToolUnavailable ==
    \A p \in Procs :
        (execs[p] # << >> /\ ~Last(execs[p]).found)
            => /\ Destination(p) \notin wrote[p]
               /\ \A f \in wrote[p] : ~IsOutputDirEntry(f)

C4_Witness ==
    \E p \in Procs :
        /\ pc[p] = "done"
        /\ status[p] = NotFound
        /\ Len(execs[p]) = 1
        /\ ~execs[p][1].found
        /\ Destination(p) \notin files

\* C5: record_clip is blocking: it has returned only if its subprocess has
\* exited (or none could be created), and once the subprocess has exited
\* record_clip eventually returns.
C5_Blocking ==
    /\ [](\A p \in Procs : pc[p] = "done" => child[p] \in { "exited", "nofork" })
    /\ \A p \in Procs : (child[p] = "exited") ~> (pc[p] = "done")

C5_Witness ==
    \E p \in Procs :
        /\ pc[p] = "done"
        /\ child[p] = "exited"
        /\ Len(execs[p]) = 1
        /\ status[p] = 0

\* C6: the destination path of a launched command is the output directory
\* followed by the clock reading written as YYYY-MM-DD_HH-MM-SS (4-digit year,
\* 2-digit zero-padded month, day, hour, minute, second) followed by ".mp4".
C6_FilenameFormat ==
    \A p \in Procs :
        Launched(p) =>
            LET f == Destination(p)
                n == Len(OutputDir)
                r == ReadingOf(p)
            IN  /\ Len(f) = n + 23
                /\ SubSeq(f, 1, n) = OutputDir
                /\ SubSeq(f, n + 20, n + 23) = Mp4
                /\ Char(f, n + 5) = "-" /\ Char(f, n + 8) = "-"
                /\ Char(f, n + 11) = "_"
                /\ Char(f, n + 14) = "-" /\ Char(f, n + 17) = "-"
                /\ \A k \in (1..19) \ { 5, 8, 11, 14, 17 } : IsDigit(Char(f, n + k))
                /\ NumberAt(f, n + 1, n + 4) = r.year
                /\ NumberAt(f, n + 6, n + 7) = r.month
                /\ NumberAt(f, n + 9, n + 10) = r.day
                /\ NumberAt(f, n + 12, n + 13) = r.hour
                /\ NumberAt(f, n + 15, n + 16) = r.minute
                /\ NumberAt(f, n + 18, n + 19) = r.second

C6_Witness ==
    \E p \in Procs :
        /\ Launched(p)
        /\ ReadingOf(p).month = 2 /\ ReadingOf(p).day = 9 /\ ReadingOf(p).hour = 0
        /\ ReadingOf(p).minute = 7 /\ ReadingOf(p).second = 0

\* C7 (as claimed): two invocations whose clock readings differ compute two
\* distinct destination paths.
C7_DistinctReadingsDistinctNames ==
    \A p, q \in Procs :
        (Launched(p) /\ Launched(q) /\ ReadingOf(p) # ReadingOf(q))
            => Destination(p) # Destination(q)

\* C7 (amended): two invocations whose clock readings differ in the year,
\* month, day, hour, minute or second compute two distinct destination paths.
C7_DistinctSecondsDistinctNames ==
    \A p, q \in Procs :
        (Launched(p) /\ Launched(q) /\ ToSecond(ReadingOf(p)) # ToSecond(ReadingOf(q)))
            => Destination(p) # Destination(q)

C7_Witness ==
    \E p, q \in Procs :
        /\ Launched(p) /\ Launched(q)
        /\ ReadingOf(p).second # ReadingOf(q).second
        /\ [ReadingOf(p) EXCEPT !.second = 0] = [ReadingOf(q) EXCEPT !.second = 0]
        /\ Destination(p) # Destination(q)

\* C8: invocations are not coordinated: whatever the other invocations are
\* doing, an invocation about to call os.system can start its shell, a shell
\* about to run the tool can run it, and a running tool can write its output
\* file.  (The colliding interleaving itself is C8_Witness.)
C8_NoCoordination ==
    \A p \in Procs :
        /\ pc[p] = "system" => ENABLED SystemLaunch(p)
        /\ child[p] = "exec" => ENABLED ShellExec(p)
        /\ child[p] = "tool" => ENABLED ToolWrite(p)

\* Two invocations that read the clock within the same second both have their
\* capture tool running and writing the same destination path.
C8_Witness ==
    \E p, q \in Procs :
        /\ p # q
        /\ child[p] = "tool" /\ child[q] = "tool"
        /\ ToSecond(ReadingOf(p)) = ToSecond(ReadingOf(q))
        /\ Last(Last(execs[p]).argv) = Last(Last(execs[q]).argv)
        /\ Last(Last(execs[p]).argv) \in wrote[p] \cap wrote[q]

\* C9 (as claimed): an invocation writes at most one file, and that file is
\* the timestamp-named .mp4 in the output directory.
C9_WritesOnlyTheClip ==
    \A p \in Procs :
        /\ Cardinality(wrote[p]) <= 1
        /\ \A f \in wrote[p] : f = OutputDir \o now[p] \o Mp4

\* C10: the clock is read exactly once, before os.system is called: from the
\* call on, the command line is the one computed from that single reading, and
\* neither the reading, nor now, nor the command line, nor the command the
\* shell holds changes, whatever the clock shows meanwhile.
C10_PathFixedBeforeCapture ==
    /\ [](\A p \in Procs :
            pc[p] \in { "wait", "done" }
                => /\ Len(readings[p]) = 1
                   /\ Len(systemCalls[p]) = 1
                   /\ systemCalls[p][1] = CommandHead \o Strftime(ReadingOf(p)) \o CommandTail
                   /\ Launched(p) => Destination(p) = OutputDir \o Strftime(ReadingOf(p)) \o Mp4)
    /\ [][\A p \in Procs :
            pc[p] \in { "wait", "done" }
                => /\ readings'[p] = readings[p]
                   /\ now'[p] = now[p]
                   /\ systemCalls'[p] = systemCalls[p]
                   /\ (Launched(p) => shell'[p] = shell[p])]_vars

\* The capture is still running and writing while the clock shows a later
\* second than the one in the destination path.
C10_Witness ==
    \E p \in Procs :
        /\ child[p] = "tool"
        /\ Destination(p) \in wrote[p]
        /\ ToSecond(clock) # ToSecond(ReadingOf(p))
        /\ Before(ReadingOf(p), clock)

====
